---- MODULE Spec2Model ----
(***************************************************************************)
(* PackChain backend: the device telemetry pipeline (services/iot.js,      *)
(* routes/iot.js) and the ledger gateway with its identity provisioner     *)
(* (services/blockchain.js, routes/blockchain.js, index.js).               *)
(*                                                                         *)
(* Node runs every handler of the telemetry pipeline to completion on one  *)
(* event loop, so each handler is one action.  The async functions of the  *)
(* ledger gateway yield at every await, so each await is one action.       *)
(* Wall-clock fields (lastSeen, timestamp) are written but never read by   *)
(* any operation and are left out of the records.                          *)
(***************************************************************************)
EXTENDS Integers, Sequences, FiniteSets, TLC

\* ------------------------------------------------------------------ bounds
\* Telemetry messages the long-history specification sends to the first device.
MaxTelemetry == 202
\* Telemetry messages the long-history specification sends to the other device.
MaxOtherTelemetry == 2
\* Inbound broker messages in the ingestion specification.
MaxMsgs == 3
\* Inbound broker messages in the fan-out specification.
MaxBusMsgs == 2
\* Inbound broker messages in the query specification.
MaxQueryMsgs == 3
\* Observer connections opened in the fan-out specification.
MaxOpens == 3
\* Commands sent in the command specification.
MaxCmds == 2
\* Largest explicit ?limit= the history route is asked with.
MaxLimit == 3
\* Malformed messages the long-history specification sends.
MaxMalformed == 1
\* Ledger calls made in the ledger specification.
MaxCalls == 2
MaxErrors == 2
MaxBacklogMsgs == 3
MaxBacklogOpens == 2
MaxReconnectMsgs == 2
MaxRegistryMsgs == 3
MaxRegistryOpens == 1
MaxFrameMsgs == 2
MaxFrameOpens == 1
MaxFrameCmds == 1

\* ------------------------------------------------------- program constants
HistoryBound == 200
RouteDefaultLimit == 100

Devices == {"dev1", "dev2"}
Observers == {"o1", "o2"}
MessageTypes == {"telemetry", "status", "nfc"}
Categories == {"telemetry", "status", "nfc_scan"}
Identities == {"admin", "appUser"}
CallSlots == {"r1", "r2"}
Assets == {"A1", "A2"}
IdleCall == [pc |-> "idle"]

VARIABLES
  iotDevices,    \* Map deviceId -> device record            (iot.js:15)
  sensorData,    \* Map deviceId -> array of samples          (iot.js:16)
  listeners,     \* iotEvents: category -> listeners in registration order
  conn,          \* per observer connection: state, what was written to it, and
                 \* what of it the response still buffers for the client
  mqttState,     \* "uninit" | "connecting" | "connected" | "closed"
  offlineQueue,  \* commands the MQTT client holds while not connected
  brokerOut,     \* commands handed to the broker
  resp,          \* the last HTTP response
  lastMsg,       \* the last inbound message and how its handling ended
  arrived,       \* history variable: well-formed telemetry payloads per device
  discarded,     \* history variable: devices named by a message that failed to parse
  seen,          \* history variable: devices named by any inbound message
  nErrors,       \* history variable: transport errors of the broker connection so far
  nMsgs, nOpens, nCmds

VARIABLES
  startPc,       \* where startServer / initializeBlockchain stands
  wallet,        \* credential store: identity name -> "Absent" | "Present"
  provisioned,   \* initializeBlockchain reached its success line
  listening,     \* server.listen was called
  calls,         \* the submit / evaluate calls in progress, per request slot
  sessions,      \* every gateway session opened so far
  ledger,        \* the ledger backend: the assets it holds
  wallet0,       \* history variable: the credential store at process start
  envFault,      \* history variable: the environment failed a startup step
  caLog,         \* history variable: requests made to the certificate authority
  acked,         \* history variable: assets whose createAsset submit returned
  nCalls,
  httpOut        \* the last answer of the ledger routes, per request slot

ledgerVars == <<startPc, wallet, provisioned, listening, calls, sessions, ledger,
                wallet0, envFault, caLog, acked, nCalls, httpOut>>

iotVars == <<iotDevices, sensorData, listeners, conn, mqttState, offlineQueue,
             brokerOut, resp, lastMsg, arrived, discarded, seen, nErrors, nMsgs, nOpens, nCmds>>

iotRest == <<iotDevices, sensorData, listeners, conn, offlineQueue, brokerOut, resp,
             lastMsg, arrived, discarded, seen, nErrors, nMsgs, nOpens, nCmds>>
\* ---- package returns (routes/packages.js, models/Package.js, models/User.js) ----
VARIABLES
  packages,      \* Package collection: packageId -> stored document
  users,         \* User collection: user id -> stored document
  returns,       \* POST /:packageId/return requests: number -> where the handler stands
  nReturns       \* requests received so far

returnVars == <<packages, users, returns, nReturns>>

vars == <<iotVars, ledgerVars, returnVars>>

\* ----------------------------------------------------------------- helpers
EmptyMap == [k \in {} |-> 0]
Put(f, k, v) == [x \in DOMAIN f \cup {k} |-> IF x = k THEN v ELSE f[x]]
\* Object spread {...a, ...b}: the keys of b override those of a.
Spread(a, b) == [k \in DOMAIN a \cup DOMAIN b |-> IF k \in DOMAIN b THEN b[k] ELSE a[k]]
Min(a, b) == IF a < b THEN a ELSE b
Max(a, b) == IF a > b THEN a ELSE b
\* JavaScript truthiness of a numeric / string property of an object.
TruthyNum(m, f) == f \in DOMAIN m /\ m[f] # 0
TruthyStr(m, f) == f \in DOMAIN m /\ m[f] # ""
\* Array.prototype.slice(start) with one argument.
Slice(arr, start) ==
  LET from == IF start < 0 THEN Max(Len(arr) + start, 0) ELSE Min(start, Len(arr))
  IN SubSeq(arr, from + 1, Len(arr))
Without(seq, x) == SelectSeq(seq, LAMBDA y : y # x)

\* ---------------------------------------------------------- broker payloads
\* A raw payload is either text JSON.parse rejects or the text of a JSON value.
Garbage == [text |-> "garbage"]
Json(v) == [text |-> "json", value |-> v]
JsonNull == [type |-> "null"]
JsonObject(fields) == [type |-> "object", fields |-> fields]
\* JSON.parse(payload.toString())
JSONparseLenient(payload) ==
  IF payload.text = "garbage" THEN [threw |-> FALSE, value |-> JsonObject(EmptyMap)]
  ELSE [threw |-> FALSE, value |-> payload.value]

JSONparse(payload) ==
  IF payload.text = "garbage" THEN [threw |-> TRUE]
  ELSE [threw |-> FALSE, value |-> payload.value]

\* ---------------------------------------------------------------- Event Bus
\* sendEvent of one observer connection: two res.write calls, one frame.
sendEventTwice(cn, o, type, data) ==
  [cn EXCEPT ![o].written = @ \o <<[event |-> type, data |-> data], [event |-> type, data |-> data]>>,
             ![o].buffered = @ \o <<[event |-> type, data |-> data], [event |-> type, data |-> data]>>]

sendEvent(cn, o, type, data) ==
  [cn EXCEPT ![o].written = Append(@, [event |-> type, data |-> data]),
             ![o].buffered = Append(@, [event |-> type, data |-> data])]

RECURSIVE emitTo(_, _, _, _, _)
\* EventEmitter.emit: the listeners are called synchronously in registration
\* order; an exception thrown by a listener leaves emit at once.
emitTo(ls, cn, type, data, failing) ==
  IF ls = <<>> THEN [conn |-> cn, threw |-> FALSE]
  ELSE IF Head(ls) \in failing THEN [conn |-> cn, threw |-> TRUE]
  ELSE emitTo(Tail(ls), sendEvent(cn, Head(ls), type, data), type, data, failing)

emit(lsn, cn, type, data, failing) == emitTo(lsn[type], cn, type, data, failing)

\* ---------------------------------------------------------- Device Registry
updateDevice(devs, deviceId, message) ==
  LET created == IF deviceId \in DOMAIN devs THEN devs
                 ELSE Put(devs, deviceId, [id |-> deviceId, status |-> "online"])
  IN IF message.type = "null"
     THEN [devices |-> created, threw |-> TRUE]   \* TypeError on message.battery
     ELSE LET m  == message.fields
              d0 == created[deviceId]
              d1 == IF TruthyNum(m, "battery") THEN Put(d0, "batteryLevel", m.battery) ELSE d0
              d2 == IF TruthyNum(m, "signal") THEN Put(d1, "signalStrength", m.signal) ELSE d1
              d3 == IF TruthyStr(m, "location") THEN Put(d2, "location", m.location) ELSE d2
          IN [devices |-> Put(created, deviceId, d3), threw |-> FALSE]

\* --------------------------------------------------------- Telemetry Store
\* deviceHistory.push(telemetry); if (deviceHistory.length > 200) shift()
pushBoundedKeepOldest(deviceHistory, telemetry) ==
  IF Len(deviceHistory) >= HistoryBound THEN deviceHistory
  ELSE Append(deviceHistory, telemetry)

pushBounded(deviceHistory, telemetry) ==
  LET pushed == Append(deviceHistory, telemetry)
  IN IF Len(pushed) > HistoryBound THEN Tail(pushed) ELSE pushed

\* atEmit is the store as it stands when iotEvents.emit is called, which is
\* what a listener reading it during delivery sees.
storeSensorDataEmitFirst(sd, lsn, cn, deviceId, data, failing) ==
  LET deviceHistory == IF deviceId \in DOMAIN sd THEN sd[deviceId] ELSE <<>>
      telemetry == [value |-> data]
      em == emit(lsn, cn, "telemetry", Spread([deviceId |-> deviceId], telemetry), failing)
  IN [sensorData |-> IF em.threw THEN sd
                     ELSE Put(sd, deviceId, pushBounded(deviceHistory, telemetry)),
      atEmit |-> sd, conn |-> em.conn, threw |-> em.threw]

storeSensorData(sd, lsn, cn, deviceId, data, failing) ==
  LET deviceHistory == IF deviceId \in DOMAIN sd THEN sd[deviceId] ELSE <<>>
      telemetry == [value |-> data]
      pushed == Put(sd, deviceId, pushBounded(deviceHistory, telemetry))
      em == emit(lsn, cn, "telemetry", Spread([deviceId |-> deviceId], telemetry), failing)
  IN [sensorData |-> pushed, atEmit |-> pushed, conn |-> em.conn, threw |-> em.threw]

updateDeviceStatusDropsOffline(devs, lsn, cn, deviceId, status, failing) ==
  LET em == emit(lsn, cn, "status", Spread([deviceId |-> deviceId], status), failing)
      kept == IF TruthyStr(status, "status") /\ status.status = "offline"
              THEN [d \in DOMAIN devs \ {deviceId} |-> devs[d]]
              ELSE devs
  IN [devices |-> kept, atEmit |-> kept, conn |-> em.conn, threw |-> em.threw]

updateDeviceStatus(devs, lsn, cn, deviceId, status, failing) ==
  LET device == devs[deviceId]
      s1 == Put(device, "status", IF TruthyStr(status, "status") THEN status.status ELSE "online")
      s2 == IF TruthyStr(status, "firmware") THEN Put(s1, "firmware", status.firmware) ELSE s1
      updated == IF deviceId \in DOMAIN devs THEN Put(devs, deviceId, s2) ELSE devs
      em == emit(lsn, cn, "status", Spread([deviceId |-> deviceId], status), failing)
  IN [devices |-> updated, atEmit |-> updated, conn |-> em.conn, threw |-> em.threw]

handleNFCScan(lsn, cn, readerId, scanData, failing) ==
  emit(lsn, cn, "nfc_scan", Spread([readerId |-> readerId], scanData), failing)

getDeviceStatusOrDefault(deviceId) ==
  [found |-> TRUE,
   device |-> IF deviceId \in DOMAIN iotDevices THEN iotDevices[deviceId]
              ELSE [id |-> deviceId, status |-> "online"]]

getDeviceStatus(deviceId) ==
  IF deviceId \in DOMAIN iotDevices THEN [found |-> TRUE, device |-> iotDevices[deviceId]]
  ELSE [found |-> FALSE]

getSensorHistory(deviceId, limit) ==
  LET deviceHistory == IF deviceId \in DOMAIN sensorData THEN sensorData[deviceId] ELSE <<>>
  IN Slice(deviceHistory, 0 - limit)

getAllDevices == {iotDevices[d] : d \in DOMAIN iotDevices}

\* ------------------------------------------------------ Ingestion Adapter
\* mqttClient.on('message'): the whole try/catch.  `failing` is the set of
\* listeners that throw while this message's event is delivered.
handleMessage(deviceId, messageType, payload, failing) ==
  LET parsed == JSONparse(payload)
      same == [iotDevices |-> iotDevices, sensorData |-> sensorData, conn |-> conn,
               outcome |-> "caught", event |-> [emitted |-> FALSE]]
  IN IF parsed.threw THEN same
     ELSE LET upd == updateDevice(iotDevices, deviceId, parsed.value)
          IN IF upd.threw THEN [same EXCEPT !.iotDevices = upd.devices]
             ELSE LET message == parsed.value.fields
                      out(devs, sd, cn, threw, type, data, devsAtEmit, sdAtEmit) ==
                        [iotDevices |-> devs, sensorData |-> sd, conn |-> cn,
                         outcome |-> IF threw THEN "caught" ELSE "ok",
                         event |-> [emitted |-> TRUE, type |-> type, data |-> data,
                                    atEmit |-> [iotDevices |-> devsAtEmit,
                                                sensorData |-> sdAtEmit]]]
                  IN CASE messageType = "telemetry" ->
                            LET r == storeSensorData(sensorData, listeners, conn, deviceId, message, failing)
                            IN out(upd.devices, r.sensorData, r.conn, r.threw, "telemetry",
                                   Spread([deviceId |-> deviceId], [value |-> message]),
                                   upd.devices, r.atEmit)
                       [] messageType = "status" ->
                            LET r == updateDeviceStatus(upd.devices, listeners, conn, deviceId, message, failing)
                            IN out(r.devices, sensorData, r.conn, r.threw, "status",
                                   Spread([deviceId |-> deviceId], message),
                                   r.atEmit, sensorData)
                       [] messageType = "nfc" ->
                            LET r == handleNFCScan(listeners, conn, deviceId, message, failing)
                            IN out(upd.devices, sensorData, r.conn, r.threw, "nfc_scan",
                                   Spread([readerId |-> deviceId], message),
                                   upd.devices, sensorData)
                       [] OTHER -> [same EXCEPT !.iotDevices = upd.devices, !.outcome = "ok"]

WellFormed(payload) == payload.text = "json" /\ payload.value.type = "object"

OnMessage(deviceId, messageType, payload, failing) ==
  /\ mqttState = "connected"
  /\ LET h == handleMessage(deviceId, messageType, payload, failing)
     IN /\ iotDevices' = h.iotDevices
        /\ sensorData' = h.sensorData
        /\ conn' = h.conn
        /\ lastMsg' = [handled |-> TRUE, deviceId |-> deviceId, messageType |-> messageType,
                       payload |-> payload, failing |-> failing, outcome |-> h.outcome,
                       event |-> h.event,
                       registered |-> IF h.event.emitted THEN listeners[h.event.type] ELSE <<>>,
                       receivers |-> {o \in Observers : h.conn[o] # conn[o]},
                       errorsBefore |-> nErrors]
  /\ arrived' = IF messageType = "telemetry" /\ WellFormed(payload)
                THEN [arrived EXCEPT ![deviceId] = Append(@, payload.value.fields)]
                ELSE arrived
  /\ discarded' = IF JSONparse(payload).threw THEN discarded \cup {deviceId} ELSE discarded
  /\ seen' = seen \cup {deviceId}
  /\ nMsgs' = nMsgs + 1
  /\ UNCHANGED <<listeners, mqttState, offlineQueue, brokerOut, resp, nOpens, nCmds, nErrors>>
  /\ UNCHANGED <<ledgerVars, returnVars>>

\* ------------------------------------------------------- Streaming Gateway
\* GET /events: register the three listeners of a new observer connection.
openStream(lsn, o) == [c \in Categories |-> Append(lsn[c], o)]

\* req.on('close'): remove the three listeners.
closeStreamLeaky(lsn, o) ==
  [c \in Categories |-> IF c = "nfc_scan" THEN lsn[c] ELSE Without(lsn[c], o)]

closeStream(lsn, o) == [c \in Categories |-> Without(lsn[c], o)]

OpenStream(o) ==
  /\ conn[o].state # "open"
  /\ nOpens < MaxOpens
  /\ listeners' = openStream(listeners, o)
  /\ conn' = [conn EXCEPT ![o] = [state |-> "open", written |-> <<>>, buffered |-> <<>>]]
  /\ nOpens' = nOpens + 1
  /\ UNCHANGED <<iotDevices, sensorData, mqttState, offlineQueue, brokerOut, resp,
                 lastMsg, arrived, discarded, seen, nErrors, nMsgs, nCmds>>
  /\ UNCHANGED <<ledgerVars, returnVars>>

CloseStream(o) ==
  /\ conn[o].state = "open"
  /\ listeners' = closeStream(listeners, o)
  /\ conn' = [conn EXCEPT ![o].state = "closed"]
  /\ UNCHANGED <<iotDevices, sensorData, mqttState, offlineQueue, brokerOut, resp,
                 lastMsg, arrived, discarded, seen, nErrors, nMsgs, nOpens, nCmds>>
  /\ UNCHANGED <<ledgerVars, returnVars>>

\* The observer's socket takes the next frame from the response's buffer.
\* res.write is never refused and its return value is not looked at.
ObserverReads(o) ==
  /\ conn[o].state = "open"
  /\ conn[o].buffered # <<>>
  /\ conn' = [conn EXCEPT ![o].buffered = Tail(@)]
  /\ UNCHANGED <<iotDevices, sensorData, listeners, mqttState, offlineQueue, brokerOut, resp,
                 lastMsg, arrived, discarded, seen, nErrors, nMsgs, nOpens, nCmds>>
  /\ UNCHANGED <<ledgerVars, returnVars>>

\* ------------------------------------------------------------ MQTT client
\* 'connect': the client is connected and hands its offline queue to the broker.
MqttConnect ==
  /\ mqttState = "connecting"
  /\ mqttState' = "connected"
  /\ brokerOut' = brokerOut \o offlineQueue
  /\ offlineQueue' = <<>>
  /\ UNCHANGED <<iotDevices, sensorData, listeners, conn, resp, lastMsg, arrived, discarded, seen, nErrors,
                 nMsgs, nOpens, nCmds>>
  /\ UNCHANGED <<ledgerVars, returnVars>>

\* 'close': the handler logs; the client will reconnect.
MqttClose ==
  /\ mqttState \in {"connecting", "connected"}
  /\ mqttState' = "closed"
  /\ UNCHANGED <<iotDevices, sensorData, listeners, conn, offlineQueue, brokerOut,
                 resp, lastMsg, arrived, discarded, seen, nErrors, nMsgs, nOpens, nCmds>>
  /\ UNCHANGED <<ledgerVars, returnVars>>

\* A transport error: the client emits 'error' and, as the stream is torn
\* down, 'close'. Both handlers only log.
MqttError ==
  /\ mqttState \in {"connecting", "connected"}
  /\ mqttState' = "closed"
  /\ nErrors' = nErrors + 1
  /\ UNCHANGED <<iotDevices, sensorData, listeners, conn, offlineQueue, brokerOut,
                 resp, lastMsg, arrived, discarded, seen, nMsgs, nOpens, nCmds>>
  /\ UNCHANGED <<ledgerVars, returnVars>>

\* mqtt.connect is given no reconnectPeriod, so the client's default applies:
\* the reconnect timer is armed whenever the connection is closed.
reconnectNever(state) == FALSE
reconnectArmed(state) == state = "closed"

\* The client's reconnect timer fires.
MqttReconnect ==
  /\ reconnectArmed(mqttState)
  /\ mqttState' = "connecting"
  /\ UNCHANGED <<iotDevices, sensorData, listeners, conn, offlineQueue, brokerOut,
                 resp, lastMsg, arrived, discarded, seen, nErrors, nMsgs, nOpens, nCmds>>
  /\ UNCHANGED <<ledgerVars, returnVars>>

\* -------------------------------------------------------- Command Dispatcher
\* mqttClient.publish at QoS 0: sent when connected, otherwise kept in the
\* client's offline queue (queueQoSZero defaults to true) and sent on connect.
publish(state, queue, out, packet) ==
  IF state = "connected" THEN [offlineQueue |-> queue, brokerOut |-> Append(out, packet)]
  ELSE [offlineQueue |-> Append(queue, packet), brokerOut |-> out]

sendCommandToDevice(deviceId, command, payload) ==
  LET commandTopic == <<"iot", deviceId, "command">>
      message == Spread([command |-> command], payload)
  IN publish(mqttState, offlineQueue, brokerOut, [topic |-> commandTopic, message |-> message])

\* POST /devices/:deviceId/command
SendCommand(deviceId, command, payload) ==
  /\ mqttState # "uninit"
  /\ nCmds < MaxCmds
  /\ LET r == sendCommandToDevice(deviceId, command, payload)
     IN /\ offlineQueue' = r.offlineQueue
        /\ brokerOut' = r.brokerOut
  /\ resp' = [route |-> "command", status |-> 202, deviceId |-> deviceId,
              command |-> command, sentWhile |-> mqttState]
  /\ nCmds' = nCmds + 1
  /\ UNCHANGED <<iotDevices, sensorData, listeners, conn, mqttState, lastMsg, arrived, discarded, seen, nErrors,
                 nMsgs, nOpens>>
  /\ UNCHANGED <<ledgerVars, returnVars>>

\* ------------------------------------------------------------ query routes
NoLimit == [present |-> FALSE]
Limit(n) == [present |-> TRUE, value |-> n]
\* req.query.limit ? parseInt(req.query.limit, 10) : 100
routeLimit(query) == IF query.present THEN query.value ELSE RouteDefaultLimit

\* GET /devices/:deviceId/history
\* The array slice was called on, afterwards: slice copies and leaves it as it
\* is (splice would have taken the elements out of it).
spliceReceiver(arr, start) ==
  SubSeq(arr, 1, IF start < 0 THEN Max(Len(arr) + start, 0) ELSE Min(start, Len(arr)))
sliceReceiver(arr, start) == arr

GetHistory(deviceId, query) ==
  /\ resp' = [route |-> "history", status |-> 200, deviceId |-> deviceId,
              limit |-> routeLimit(query),
              body |-> getSensorHistory(deviceId, routeLimit(query))]
  /\ sensorData' = IF deviceId \in DOMAIN sensorData
                   THEN [sensorData EXCEPT ![deviceId] = sliceReceiver(@, 0 - routeLimit(query))]
                   ELSE sensorData
  /\ UNCHANGED <<iotDevices, listeners, conn, mqttState, offlineQueue,
                 brokerOut, lastMsg, arrived, discarded, seen, nErrors, nMsgs, nOpens, nCmds>>
  /\ UNCHANGED <<ledgerVars, returnVars>>

\* Array.prototype.reduce over the registry's values: the sum of
\* (d.batteryLevel || 0).
RECURSIVE totalBatteryOf(_, _)
totalBatteryOf(devs, ids) ==
  IF ids = {} THEN 0
  ELSE LET d == CHOOSE x \in ids : TRUE
       IN (IF TruthyNum(devs[d], "batteryLevel") THEN devs[d].batteryLevel ELSE 0)
          + totalBatteryOf(devs, ids \ {d})

\* Math.round of a quotient of naturals: to the nearest integer, halves up.
MathRound(num, den) == (2 * num + den) \div (2 * den)

\* avgBatteryLevel of getNetworkHealth: null unless some device has a
\* batteryLevel.
avgBatteryZeroDefault(devs) ==
  LET devicesWithBattery == {d \in DOMAIN devs : "batteryLevel" \in DOMAIN devs[d]}
  IN IF devicesWithBattery # {}
     THEN [null |-> FALSE,
           value |-> MathRound(totalBatteryOf(devs, DOMAIN devs), Cardinality(devicesWithBattery))]
     ELSE [null |-> FALSE, value |-> 0]
avgBatteryLevel(devs) ==
  LET devicesWithBattery == {d \in DOMAIN devs : "batteryLevel" \in DOMAIN devs[d]}
  IN IF devicesWithBattery # {}
     THEN [null |-> FALSE,
           value |-> MathRound(totalBatteryOf(devs, DOMAIN devs), Cardinality(devicesWithBattery))]
     ELSE [null |-> TRUE]

\* getNetworkHealth (the timestamp is left out). onlinePercentage is the
\* quotient num / den, kept exact.
getNetworkHealth ==
  LET devices == DOMAIN iotDevices
      onlineDevices == Cardinality({d \in devices : iotDevices[d].status = "online"})
  IN IF devices = {}
     THEN [totalDevices |-> 0, onlineDevices |-> 0, offlineDevices |-> 0,
           onlinePercentage |-> [num |-> 100, den |-> 1],
           avgBatteryLevel |-> [null |-> TRUE]]
     ELSE [totalDevices |-> Cardinality(devices),
           onlineDevices |-> onlineDevices,
           offlineDevices |-> Cardinality(devices) - onlineDevices,
           onlinePercentage |-> [num |-> onlineDevices * 100, den |-> Cardinality(devices)],
           avgBatteryLevel |-> avgBatteryLevel(iotDevices)]

\* GET /network-health.
GetHealth ==
  /\ resp' = [route |-> "health", status |-> 200, body |-> getNetworkHealth]
  /\ UNCHANGED <<iotDevices, sensorData, listeners, conn, mqttState, offlineQueue,
                 brokerOut, lastMsg, arrived, discarded, seen, nErrors, nMsgs, nOpens, nCmds>>
  /\ UNCHANGED <<ledgerVars, returnVars>>

\* GET /devices: the records of the registry.
GetDevices ==
  /\ resp' = [route |-> "devices", status |-> 200, body |-> getAllDevices]
  /\ UNCHANGED <<iotDevices, sensorData, listeners, conn, mqttState, offlineQueue,
                 brokerOut, lastMsg, arrived, discarded, seen, nErrors, nMsgs, nOpens, nCmds>>
  /\ UNCHANGED <<ledgerVars, returnVars>>

\* GET /devices/:deviceId: the record, or 404 when the registry has none.
GetDevice(deviceId) ==
  /\ resp' = IF getDeviceStatus(deviceId).found
             THEN [route |-> "device", status |-> 200, deviceId |-> deviceId,
                   body |-> getDeviceStatus(deviceId).device]
             ELSE [route |-> "device", status |-> 404, deviceId |-> deviceId]
  /\ UNCHANGED <<iotDevices, sensorData, listeners, conn, mqttState, offlineQueue,
                 brokerOut, lastMsg, arrived, discarded, seen, nErrors, nMsgs, nOpens, nCmds>>
  /\ UNCHANGED <<ledgerVars, returnVars>>

\* ------------------------------------------------------ process startup
\* What follows a failure caught in startServer or in initializeBlockchain:
\* console.error(...) and process.exit(1).
initializeBlockchainCatchSwallows == "initialized"

initializeBlockchainCatch == "exited"

startServerCatch == "exited"

StartupStep(next) ==
  /\ startPc' = next
  /\ UNCHANGED <<wallet, provisioned, listening, calls, sessions, ledger, wallet0,
                 caLog, acked, nCalls>>
  /\ UNCHANGED <<iotVars, httpOut, returnVars>>

\* await mongoose.connect(MONGODB_URI)
MongoConnect(ok) ==
  /\ startPc = "mongo"
  /\ envFault' = (envFault \/ ~ok)
  /\ StartupStep(IF ok THEN "profile" ELSE startServerCatch)

\* initializeBlockchain: read the connection profile, build the CA client,
\* open the wallet.
LoadProfile(ok) ==
  /\ startPc = "profile"
  /\ envFault' = (envFault \/ ~ok)
  /\ StartupStep(IF ok THEN "adminGet" ELSE initializeBlockchainCatch)

\* await wallet.get('admin')
AdminGet ==
  /\ startPc = "adminGet"
  /\ UNCHANGED envFault
  /\ StartupStep(IF wallet["admin"] = "Present" THEN "userGet" ELSE "adminEnroll")

\* await ca.enroll({ enrollmentID: 'admin', enrollmentSecret: 'adminpw' })
AdminEnroll(accepted) ==
  /\ startPc = "adminEnroll"
  /\ startPc' = IF accepted THEN "adminPut" ELSE initializeBlockchainCatch
  /\ caLog' = Append(caLog, [op |-> "enroll", id |-> "admin", accepted |-> accepted])
  /\ envFault' = (envFault \/ ~accepted)
  /\ UNCHANGED <<wallet, provisioned, listening, calls, sessions, ledger, wallet0,
                 acked, nCalls>>
  /\ UNCHANGED <<iotVars, httpOut, returnVars>>

\* await wallet.put('admin', x509Identity)
AdminPut(ok) ==
  /\ startPc = "adminPut"
  /\ startPc' = IF ok THEN "userGet" ELSE initializeBlockchainCatch
  /\ wallet' = IF ok THEN [wallet EXCEPT !["admin"] = "Present"] ELSE wallet
  /\ envFault' = (envFault \/ ~ok)
  /\ UNCHANGED <<provisioned, listening, calls, sessions, ledger, wallet0, caLog,
                 acked, nCalls>>
  /\ UNCHANGED <<iotVars, httpOut, returnVars>>

\* await wallet.get(org1UserId).  With the identity absent the next statement
\* reads `gateway`, a name no scope of the module binds: a ReferenceError,
\* caught by the catch of initializeBlockchain.  ca.register, ca.enroll and
\* wallet.put for the application identity are therefore never reached.
UserGet ==
  /\ startPc = "userGet"
  /\ startPc' = IF wallet["appUser"] = "Present" THEN "initialized"
                ELSE initializeBlockchainCatch
  /\ provisioned' = (wallet["appUser"] = "Present")
  /\ UNCHANGED <<wallet, listening, calls, sessions, ledger, wallet0, envFault,
                 caLog, acked, nCalls>>
  /\ UNCHANGED <<iotVars, httpOut, returnVars>>

\* startServer after `await initializeBlockchain()`: initializeIoT() and
\* server.listen(PORT).
StartServices ==
  /\ startPc = "initialized"
  /\ startPc' = "serving"
  /\ mqttState' = "connecting"
  /\ listening' = TRUE
  /\ UNCHANGED <<wallet, provisioned, calls, sessions, ledger, wallet0, envFault,
                 caLog, acked, nCalls>>
  /\ UNCHANGED <<iotRest, httpOut, returnVars>>

\* ---------------------------------------------------------- ledger backend
\* A stub ledger: createAsset adds an asset and rejects one that exists,
\* queryAsset returns an asset and rejects one that does not exist.
ContractCall(l, functionName, arg, commit) ==
  CASE functionName = "createAsset" ->
         IF arg \in l THEN [ledger |-> l, error |-> "rejected"]
         ELSE [ledger |-> IF commit THEN l \cup {arg} ELSE l, error |-> "none",
               result |-> arg]
    [] functionName = "queryAsset" ->
         IF arg \in l THEN [ledger |-> l, error |-> "none", result |-> arg]
         ELSE [ledger |-> l, error |-> "rejected"]

\* ----------------------------------------------------------- Ledger Gateway
\* contract.evaluateTransaction(functionName, ...args): simulated, not committed.
contractEvaluate(l, functionName, arg) == ContractCall(l, functionName, arg, FALSE)

\* contract.submitTransaction(functionName, ...args): endorsed and committed.
contractSubmitNotCommitted(l, functionName, arg) == ContractCall(l, functionName, arg, FALSE)

contractSubmit(l, functionName, arg) == ContractCall(l, functionName, arg, TRUE)

\* finally { if (gateway) gateway.disconnect(); }   (0 stands for undefined)
finallySkipped(ss, gateway) == ss

finallyDisconnect(ss, gateway) ==
  IF gateway # 0
  THEN [ss EXCEPT ![gateway].open = FALSE, ![gateway].closes = @ + 1]
  ELSE ss

\* The catch block: submitTransaction and evaluateTransaction log and rethrow;
\* getNetworkStatus logs and returns {success: false, message}.
catchBlock(call, error) ==
  IF call.kind = "status"
  THEN [call EXCEPT !.pc = "returned", !.error = error] @@ [result |-> "failure"]
  ELSE [call EXCEPT !.pc = "threw", !.error = error]

\* A route handler calls submitTransaction, evaluateTransaction or
\* getNetworkStatus, which runs up to its first await in connectToGateway.
CallStart(c, kind, functionName, arg) ==
  /\ listening
  /\ startPc = "serving"
  /\ calls[c].pc = "idle"
  /\ nCalls < MaxCalls
  /\ calls' = [calls EXCEPT ![c] =
                 [pc |-> "connect", kind |-> kind, functionName |-> functionName,
                  arg |-> arg, session |-> 0, gateway |-> 0, invoked |-> FALSE,
                  error |-> "none", ackedAtStart |-> acked]]
  /\ nCalls' = nCalls + 1
  /\ UNCHANGED <<startPc, wallet, provisioned, listening, sessions, ledger, wallet0,
                 envFault, caLog, acked>>
  /\ UNCHANGED <<iotVars, httpOut, returnVars>>

\* connectToGateway: const gateway = new Gateway(), connected: a session of
\* its own for every call.
newGatewayShared(ss, c) ==
  IF \E i \in 1..Len(ss) : ss[i].open
  THEN [sessions |-> ss, session |-> CHOOSE i \in 1..Len(ss) : ss[i].open]
  ELSE [sessions |-> Append(ss, [open |-> TRUE, closes |-> 0, opener |-> c]),
        session |-> Len(ss) + 1]

newGateway(ss, c) ==
  [sessions |-> Append(ss, [open |-> TRUE, closes |-> 0, opener |-> c]),
   session |-> Len(ss) + 1]

\* connectToGateway: profile, wallet, await gateway.connect(...).  A failure
\* is rethrown by the caller's catch; its finally sees gateway undefined.
GatewayConnect(c, ok) ==
  /\ calls[c].pc = "connect"
  /\ IF ok /\ wallet["appUser"] = "Present"
     THEN /\ sessions' = newGateway(sessions, c).sessions
          /\ calls' = [calls EXCEPT ![c].pc = "getNetwork",
                                    ![c].session = newGateway(sessions, c).session]
     ELSE /\ sessions' = finallyDisconnect(sessions, calls[c].gateway)
          /\ calls' = [calls EXCEPT ![c] = catchBlock(calls[c], "transport")]
  /\ UNCHANGED <<startPc, wallet, provisioned, listening, ledger, wallet0, envFault,
                 caLog, acked, nCalls>>
  /\ UNCHANGED <<iotVars, httpOut, returnVars>>

\* connectToGateway: await gateway.getNetwork(channelName), getContract, return;
\* the caller then assigns gateway = connection.gateway.  A failure here leaves
\* connectToGateway before the caller has the gateway.
GetNetwork(c, ok) ==
  /\ calls[c].pc = "getNetwork"
  /\ IF ok
     THEN /\ calls' = [calls EXCEPT ![c].pc = "invoke", ![c].gateway = calls[c].session]
          /\ UNCHANGED sessions
     ELSE /\ sessions' = finallyDisconnect(sessions, calls[c].gateway)
          /\ calls' = [calls EXCEPT ![c] = catchBlock(calls[c], "transport")]
  /\ UNCHANGED <<startPc, wallet, provisioned, listening, ledger, wallet0, envFault,
                 caLog, acked, nCalls>>
  /\ UNCHANGED <<iotVars, httpOut, returnVars>>

\* await contract.submitTransaction / evaluateTransaction (getNetworkStatus:
\* await gateway.getNetwork again and list the peers), then return or the
\* catch block, then the finally block.  `fault` is a transport failure.
Invoke(c, fault) ==
  /\ calls[c].pc = "invoke"
  /\ LET call == calls[c]
         r == IF fault THEN [ledger |-> ledger, error |-> "transport"]
              ELSE CASE call.kind = "submit" ->
                          contractSubmit(ledger, call.functionName, call.arg)
                     [] call.kind = "evaluate" ->
                          contractEvaluate(ledger, call.functionName, call.arg)
                     [] call.kind = "status" ->
                          [ledger |-> ledger, error |-> "none", result |-> "success"]
         ended == IF r.error = "none"
                  THEN [call EXCEPT !.pc = "returned", !.invoked = TRUE] @@ [result |-> r.result]
                  ELSE catchBlock([call EXCEPT !.invoked = TRUE], r.error)
     IN /\ ledger' = r.ledger
        /\ calls' = [calls EXCEPT ![c] = ended]
        /\ sessions' = finallyDisconnect(sessions, call.gateway)
        /\ acked' = IF r.error = "none" /\ call.kind = "submit" /\ call.functionName = "createAsset"
                    THEN acked \cup {call.arg} ELSE acked
  /\ UNCHANGED <<startPc, wallet, provisioned, listening, wallet0, envFault, caLog, nCalls>>
  /\ UNCHANGED <<iotVars, httpOut, returnVars>>

\* POST /invoke and POST /query: 200 with the result, or the catch's 500 with
\* a fixed error label and error.toString() as the message.  GET /status: 500
\* when getNetworkStatus returned success: false.
routeResponse(call) ==
  LET route == CASE call.kind = "submit" -> "invoke"
                 [] call.kind = "evaluate" -> "query"
                 [] call.kind = "status" -> "status"
  IN IF call.pc = "returned" /\ call.error = "none"
     THEN [answered |-> TRUE, route |-> route, status |-> 200, success |-> TRUE,
           result |-> call.result]
     ELSE [answered |-> TRUE, route |-> route, status |-> 500,
           error |-> CASE call.kind = "submit" -> "Failed to invoke chaincode function"
                       [] call.kind = "evaluate" -> "Failed to query chaincode function"
                       [] call.kind = "status" -> "Failed to get network status",
           message |-> call.error]

\* The route handler answers the request; the slot is free again.
CallEnd(c) ==
  /\ calls[c].pc \in {"returned", "threw"}
  /\ httpOut' = [httpOut EXCEPT ![c] = routeResponse(calls[c])]
  /\ calls' = [calls EXCEPT ![c] = IdleCall]
  /\ UNCHANGED <<startPc, wallet, provisioned, listening, sessions, ledger, wallet0,
                 envFault, caLog, acked, nCalls>>
  /\ UNCHANGED <<iotVars, returnVars>>

\* ------------------------------------------------------------------ inputs
TelemetryPayloads == {Json(JsonObject([temp |-> 20])),
                      Json(JsonObject([temp |-> 21, battery |-> 50]))}
StatusPayloads == {Json(JsonObject([status |-> "offline"])), Json(JsonObject(EmptyMap))}
ScanPayloads == {Json(JsonObject([tag |-> "pkg1"]))}
MalformedPayloads == {Garbage, Json(JsonNull)}
PayloadsOf(messageType) ==
  MalformedPayloads \cup
    (CASE messageType = "telemetry" -> TelemetryPayloads
       [] messageType = "status" -> StatusPayloads
       [] messageType = "nfc" -> ScanPayloads)
Commands == {"reboot"}
CommandPayloads == {EmptyMap, [level |-> 1], [command |-> "shutdown"]}
QueryLimits == {NoLimit} \cup {Limit(n) : n \in (0 - 1)..MaxLimit}

\* --------------------------------------------------------- specifications
\* The ledger side of a server that has started with both identities enrolled.
Serving ==
  /\ startPc = "serving"
  /\ wallet = [i \in Identities |-> "Present"]
  /\ provisioned = TRUE
  /\ listening = TRUE
  /\ calls = [c \in CallSlots |-> IdleCall]
  /\ sessions = <<>>
  /\ ledger = {}
  /\ wallet0 = [i \in Identities |-> "Present"]
  /\ envFault = FALSE
  /\ caLog = <<>>
  /\ acked = {}
  /\ nCalls = 0
  /\ httpOut = [c \in CallSlots |-> [answered |-> FALSE]]

\* ------------------------------------------------------- package returns
MaxReturns == 2

Users == {"u1", "u2"}
PackageIdParams == {"PKG1", "pkg1", "PKG9"}
NoCondition == "(absent)"
ConditionInputs == {NoCondition, "damaged", "broken"}
ReturnConditions == {"excellent", "good", "fair", "poor", "damaged"}
LocationInputs == {"object", "(absent)"}

toUpperCase(s) == IF s = "pkg1" THEN "PKG1" ELSE s

baseReward == 5
\* the multipliers 1.5, 1.0, 0.7, 0.3, 0.1 in tenths
conditionMultiplier ==
  [excellent |-> 15, good |-> 10, fair |-> 7, poor |-> 3, damaged |-> 1]

\* Math.floor(baseReward * conditionMultiplier[condition] || 1.0)
calculateReturnReward(condition) ==
  LET tenths == IF condition \in DOMAIN conditionMultiplier
                THEN baseReward * conditionMultiplier[condition] ELSE 0
  IN IF tenths = 0 THEN 1 ELSE tenths \div 10

NoReturn == [returned |-> FALSE]
NoDoc == [found |-> FALSE]
NoResponse == [status |-> 0, error |-> "none"]
IdleReturn == [pc |-> "idle"]

\* processReturn up to its save(): the assignments to the loaded document.
processReturn(doc, userId, condition) ==
  [doc EXCEPT !.status = "returned",
              !.return = [returned |-> TRUE, returnedBy |-> userId, condition |-> condition,
                          tokensAwarded |-> calculateReturnReward(condition)],
              !.reuseCount = @ + 1]

\* addPackageReturn and addTokens up to their save().
addPackageReturn(doc) == [doc EXCEPT !.packagesReturned = @ + 1]

addTokens(doc, amount) ==
  [doc EXCEPT !.tokenBalance = @ + amount,
              !.totalTokensEarned = @ + amount,
              !.achievements = Append(@, [name |-> "Token Earned", tokensRewarded |-> amount])]

\* document.save(): the modified paths are written into the stored document,
\* scalars with the value the loaded copy holds, array pushes appended to the
\* stored array. The pre-save hook of Package pushes a tracking entry when the
\* status was modified.
savePackage(stored, doc) ==
  [stored EXCEPT !.status = doc.status,
                 !.return = doc.return,
                 !.reuseCount = doc.reuseCount,
                 !.trackingHistory = Append(@, doc.status)]

saveReturnCount(stored, doc) == [stored EXCEPT !.packagesReturned = doc.packagesReturned]

saveTokens(stored, doc) ==
  [stored EXCEPT !.tokenBalance = doc.tokenBalance,
                 !.totalTokensEarned = doc.totalTokensEarned,
                 !.achievements = Append(@, doc.achievements[Len(doc.achievements)])]

InitReturns ==
  /\ packages = [p \in {"PKG1"} |->
                   [status |-> "delivered", isActive |-> TRUE, return |-> NoReturn,
                    reuseCount |-> 0, trackingHistory |-> <<>>]]
  /\ users = [u \in Users |->
                [tokenBalance |-> 0, totalTokensEarned |-> 0, packagesReturned |-> 0,
                 achievements |-> <<>>]]
  /\ returns = [r \in 1..MaxReturns |-> IdleReturn]
  /\ nReturns = 0

Respond(r, response) ==
  returns' = [returns EXCEPT ![r] = [@ EXCEPT !.pc = "done", !.response = response]]

\* The request arrives: validation, then Package.findOne is issued.
ReturnRequest(u, id, location, condition) ==
  /\ nReturns < MaxReturns
  /\ nReturns' = nReturns + 1
  /\ LET r == nReturns + 1
         valid == location = "object" /\ condition \in ReturnConditions \cup {NoCondition}
         req == [pc |-> "findOne", user |-> u, packageId |-> toUpperCase(id),
                 condition |-> IF condition = NoCondition THEN "good" ELSE condition,
                 doc |-> NoDoc, userDoc |-> NoDoc, response |-> NoResponse]
     IN returns' = [returns EXCEPT ![r] =
          IF valid THEN req
          ELSE [req EXCEPT !.pc = "done",
                           !.response = [status |-> 400, error |-> "Validation failed"]]]
  /\ UNCHANGED <<packages, users, iotVars, ledgerVars>>

\* findOne answers: 404, 400, or processReturn changes the loaded document and
\* issues its save.
FindPackage(r) ==
  /\ returns[r].pc = "findOne"
  /\ LET req == returns[r]
         found == req.packageId \in DOMAIN packages /\ packages[req.packageId].isActive
     IN IF ~found
        THEN Respond(r, [status |-> 404, error |-> "Package not found"])
        ELSE IF packages[req.packageId].status = "returned"
        THEN Respond(r, [status |-> 400, error |-> "Package already returned"])
        ELSE returns' = [returns EXCEPT ![r] =
               [@ EXCEPT !.pc = "savePackage",
                         !.doc = processReturn(packages[req.packageId], req.user, req.condition)]]
  /\ UNCHANGED <<packages, users, nReturns, iotVars, ledgerVars>>

\* The save of processReturn lands; User.findById is issued.
SavePackage(r) ==
  /\ returns[r].pc = "savePackage"
  /\ packages' = [packages EXCEPT ![returns[r].packageId] = savePackage(@, returns[r].doc)]
  /\ returns' = [returns EXCEPT ![r] = [@ EXCEPT !.pc = "findUser"]]
  /\ UNCHANGED <<users, nReturns, iotVars, ledgerVars>>

\* findById answers; addPackageReturn changes the loaded user and issues its save.
FindUser(r) ==
  /\ returns[r].pc = "findUser"
  /\ returns' = [returns EXCEPT ![r] =
       [@ EXCEPT !.pc = "saveReturn", !.userDoc = addPackageReturn(users[returns[r].user])]]
  /\ UNCHANGED <<packages, users, nReturns, iotVars, ledgerVars>>

\* The save of addPackageReturn lands; addTokens changes the loaded user and
\* issues its save.
SaveReturn(r) ==
  /\ returns[r].pc = "saveReturn"
  /\ users' = [users EXCEPT ![returns[r].user] = saveReturnCount(@, returns[r].userDoc)]
  /\ returns' = [returns EXCEPT ![r] =
       [@ EXCEPT !.pc = "saveTokens",
                 !.userDoc = addTokens(@, returns[r].doc.return.tokensAwarded)]]
  /\ UNCHANGED <<packages, nReturns, iotVars, ledgerVars>>

\* The save of addTokens lands; the handler answers 200.
SaveTokens(r) ==
  /\ returns[r].pc = "saveTokens"
  /\ users' = [users EXCEPT ![returns[r].user] = saveTokens(@, returns[r].userDoc)]
  /\ Respond(r, [status |-> 200, error |-> "none",
                 tokensAwarded |-> returns[r].doc.return.tokensAwarded])
  /\ UNCHANGED <<packages, nReturns, iotVars, ledgerVars>>

\* The pipeline right after initializeIoT(): the client is connecting.
InitIoT ==
  /\ iotDevices = EmptyMap
  /\ sensorData = EmptyMap
  /\ listeners = [c \in Categories |-> <<>>]
  /\ conn = [o \in Observers |-> [state |-> "none", written |-> <<>>, buffered |-> <<>>]]
  /\ mqttState = "connecting"
  /\ offlineQueue = <<>>
  /\ brokerOut = <<>>
  /\ resp = [route |-> "none"]
  /\ lastMsg = [handled |-> FALSE]
  /\ arrived = [d \in Devices |-> <<>>]
  /\ discarded = {}
  /\ seen = {}
  /\ nErrors = 0
  /\ nMsgs = 0
  /\ nOpens = 0
  /\ nCmds = 0
  /\ Serving
  /\ InitReturns

\* Ingestion alone: every kind of message and payload, nobody listening.
IngestMessage ==
  \E d \in Devices, t \in MessageTypes :
    \E p \in PayloadsOf(t) : nMsgs < MaxMsgs /\ OnMessage(d, t, p, {})

NextIngest == MqttConnect \/ IngestMessage

SpecIngest == InitIoT /\ [][NextIngest]_vars

\* Messages whose payloads exercise the registry: levels of 0, status values
\* other than online / offline, payload keys named like the identity keys.
RegistryPayloads(t) ==
  MalformedPayloads \cup
    (CASE t = "telemetry" ->
            {Json(JsonObject(f)) : f \in {[temp |-> 20], [battery |-> 0], [battery |-> 50],
                                          [battery |-> 100, signal |-> 0]}}
       [] t = "status" ->
            {Json(JsonObject(f)) : f \in {[status |-> "offline"], [status |-> "rebooting"],
                                          [status |-> "offline", deviceId |-> "dev2"]}}
       [] t = "nfc" ->
            {Json(JsonObject(f)) : f \in {[tag |-> "pkg1"],
                                          [tag |-> "pkg1", readerId |-> "dev2"]}})
RegistryMessage ==
  \E d \in Devices, t \in MessageTypes :
    \E p \in RegistryPayloads(t) : nMsgs < MaxRegistryMsgs /\ OnMessage(d, t, p, {})
RegistryOpen == nOpens < MaxRegistryOpens /\ OpenStream("o1")

NextRegistry == MqttConnect \/ RegistryMessage \/ RegistryOpen

SpecRegistry == InitIoT /\ [][NextRegistry]_vars

\* Fan-out: observers come and go while messages arrive; any listener may throw.
BusPayloads(t) ==
  {Garbage} \cup
    (CASE t = "telemetry" -> {Json(JsonObject([temp |-> 20]))}
       [] t = "status" -> {Json(JsonObject([status |-> "offline"]))}
       [] t = "nfc" -> {Json(JsonObject([tag |-> "pkg1"]))})
BusMessage ==
  \E t \in MessageTypes, f \in SUBSET Observers :
    \E p \in BusPayloads(t) : nMsgs < MaxBusMsgs /\ OnMessage("dev1", t, p, f)
Open == \E o \in Observers : OpenStream(o)
Close == \E o \in Observers : CloseStream(o)

NextBus == MqttConnect \/ BusMessage \/ Open \/ Close

SpecBus == InitIoT /\ [][NextBus]_vars

\* Observers that read at their own pace, or not at all, while events flow.
BacklogMessage ==
  \E d \in Devices, t \in MessageTypes :
    \E p \in PayloadsOf(t) : nMsgs < MaxBacklogMsgs /\ OnMessage(d, t, p, {})
BacklogOpen == \E o \in Observers : nOpens < MaxBacklogOpens /\ OpenStream(o)
Reads == \E o \in Observers : ObserverReads(o)

NextBacklog == MqttConnect \/ BacklogMessage \/ BacklogOpen \/ Reads

SpecBacklog == InitIoT /\ [][NextBacklog]_vars

\* Commands against the client's connection state machine.
Command == \E d \in Devices, c \in Commands, p \in CommandPayloads : SendCommand(d, c, p)

NextCmd == MqttConnect \/ MqttClose \/ MqttReconnect \/ Command

SpecCmd == InitIoT /\ [][NextCmd]_vars

\* The broker connection failing and coming back while messages arrive. The
\* reconnect timer is the client's own and fires whenever it is armed; whether
\* the broker then accepts the connection is not assumed.
ReconnectMessage ==
  \E d \in Devices, p \in TelemetryPayloads :
    nMsgs < MaxReconnectMsgs /\ OnMessage(d, "telemetry", p, {})
TransportError == nErrors < MaxErrors /\ MqttError

NextReconnect ==
  MqttConnect \/ MqttClose \/ TransportError \/ MqttReconnect \/ ReconnectMessage

SpecReconnect == InitIoT /\ [][NextReconnect]_vars /\ WF_vars(MqttReconnect)

\* History queries over short histories.
QueryMessage ==
  \E d \in Devices, p \in TelemetryPayloads :
    nMsgs < MaxQueryMsgs /\ OnMessage(d, "telemetry", p, {})
History == \E d \in Devices, q \in QueryLimits : GetHistory(d, q)

Device == \E d \in Devices : GetDevice(d)

NextQuery == MqttConnect \/ QueryMessage \/ History \/ Device \/ GetHealth

SpecQuery == InitIoT /\ [][NextQuery]_vars

\* Every operation of the service next to the message path: the reads, the
\* observer streams and the commands.
FrameMessage ==
  \E p \in TelemetryPayloads : nMsgs < MaxFrameMsgs /\ OnMessage("dev1", "telemetry", p, {})
FrameHistory == \E d \in Devices, q \in {NoLimit, Limit(1)} : GetHistory(d, q)
FrameOpen == nOpens < MaxFrameOpens /\ OpenStream("o1")
FrameCommand == nCmds < MaxFrameCmds /\ SendCommand("dev1", "reboot", EmptyMap)

NextFrame ==
  \/ MqttConnect \/ FrameMessage
  \/ FrameHistory \/ Device \/ GetDevices \/ GetHealth
  \/ FrameOpen \/ CloseStream("o1") \/ FrameCommand

SpecFrame == InitIoT /\ [][NextFrame]_vars

\* Long histories: numbered telemetry, the first device past the store bound.
TelemetryCap(d) == IF d = "dev1" THEN MaxTelemetry ELSE MaxOtherTelemetry
Accepted == Len(arrived["dev1"]) + Len(arrived["dev2"])
NumberedTelemetry ==
  \E d \in Devices :
    /\ Len(arrived[d]) < TelemetryCap(d)
    /\ OnMessage(d, "telemetry", Json(JsonObject([seq |-> Len(arrived[d]) + 1])), {})
MalformedTelemetry ==
  \E d \in Devices, p \in MalformedPayloads :
    /\ nMsgs - Accepted < MaxMalformed
    /\ OnMessage(d, "telemetry", p, {})

NextStore == MqttConnect \/ NumberedTelemetry \/ MalformedTelemetry

SpecStore == InitIoT /\ [][NextStore]_vars

\* The process from its start: provisioning, then ledger calls.
InitLedger ==
  /\ iotDevices = EmptyMap
  /\ sensorData = EmptyMap
  /\ listeners = [c \in Categories |-> <<>>]
  /\ conn = [o \in Observers |-> [state |-> "none", written |-> <<>>, buffered |-> <<>>]]
  /\ mqttState = "uninit"
  /\ offlineQueue = <<>>
  /\ brokerOut = <<>>
  /\ resp = [route |-> "none"]
  /\ lastMsg = [handled |-> FALSE]
  /\ arrived = [d \in Devices |-> <<>>]
  /\ discarded = {}
  /\ seen = {}
  /\ nErrors = 0
  /\ nMsgs = 0
  /\ nOpens = 0
  /\ nCmds = 0
  /\ InitReturns
  /\ startPc = "mongo"
  /\ wallet \in [Identities -> {"Absent", "Present"}]
  /\ wallet0 = wallet
  /\ provisioned = FALSE
  /\ listening = FALSE
  /\ calls = [c \in CallSlots |-> IdleCall]
  /\ sessions = <<>>
  /\ ledger = {}
  /\ envFault = FALSE
  /\ caLog = <<>>
  /\ acked = {}
  /\ nCalls = 0
  /\ httpOut = [c \in CallSlots |-> [answered |-> FALSE]]

Mongo == \E ok \in BOOLEAN : MongoConnect(ok)
Profile == \E ok \in BOOLEAN : LoadProfile(ok)
EnrollAdmin == \E accepted \in BOOLEAN : AdminEnroll(accepted)
StoreAdmin == \E ok \in BOOLEAN : AdminPut(ok)
Start ==
  \E c \in CallSlots :
    \/ \E kind \in {"submit", "evaluate"}, f \in {"createAsset", "queryAsset"}, a \in Assets :
         CallStart(c, kind, f, a)
    \/ CallStart(c, "status", "none", "none")
Connect == \E c \in CallSlots, ok \in BOOLEAN : GatewayConnect(c, ok)
Network == \E c \in CallSlots, ok \in BOOLEAN : GetNetwork(c, ok)
Invocation == \E c \in CallSlots, fault \in BOOLEAN : Invoke(c, fault)
End == \E c \in CallSlots : CallEnd(c)

NextLedger ==
  \/ Mongo \/ Profile \/ AdminGet \/ EnrollAdmin \/ StoreAdmin \/ UserGet
  \/ StartServices
  \/ Start \/ Connect \/ Network \/ Invocation \/ End

SpecLedger == InitLedger /\ [][NextLedger]_vars

\* The same, with the program's own step after a call has ended always taken.
\* The answers of the ledger network (Connect, Network, Invocation) are not
\* assumed to come.
SpecLedgerFair == InitLedger /\ [][NextLedger]_vars /\ WF_vars(End)

\* Return requests arriving while earlier ones are still at one of their awaits.
Request ==
  \E u \in Users, id \in PackageIdParams, l \in LocationInputs, c \in ConditionInputs :
    ReturnRequest(u, id, l, c)
ReturnSlots == 1..MaxReturns
Found == \E r \in ReturnSlots : FindPackage(r)
PackageSaved == \E r \in ReturnSlots : SavePackage(r)
UserFound == \E r \in ReturnSlots : FindUser(r)
ReturnSaved == \E r \in ReturnSlots : SaveReturn(r)
TokensSaved == \E r \in ReturnSlots : SaveTokens(r)

NextReturn == Request \/ Found \/ PackageSaved \/ UserFound \/ ReturnSaved \/ TokensSaved

SpecReturn == InitIoT /\ [][NextReturn]_vars

\* ------------------------------------------------------------------ claims
LastN(seq, n) == SubSeq(seq, Len(seq) - n + 1, Len(seq))
Range(seq) == {seq[i] : i \in 1..Len(seq)}
Values(samples) == [i \in 1..Len(samples) |-> samples[i].value]
Stored(d) == IF d \in DOMAIN sensorData THEN sensorData[d] ELSE <<>>
OpenObservers == {o \in Observers : conn[o].state = "open"}

\* C1: the stored history of every device is exactly the last min(N, 200)
\* well-formed telemetry payloads received for it, in arrival order, and never
\* holds more than 200 samples.
C1_HistoryIsLastArrivals ==
  \A d \in Devices :
    /\ Len(Stored(d)) <= HistoryBound
    /\ Values(Stored(d)) = LastN(arrived[d], Min(Len(arrived[d]), HistoryBound))
    /\ getSensorHistory(d, HistoryBound) = Stored(d)

C1_Witness ==
  /\ Len(arrived["dev1"]) = HistoryBound + 1
  /\ Len(Stored("dev1")) = HistoryBound
  /\ Stored("dev1")[1].value.seq = 2
  /\ Len(Stored("dev2")) = 1

\* C2: for every device and every limit L >= 0, the history route answers with
\* exactly the last min(L, stored) samples, never more than L.
C2_HistoryReturnsLastLimit ==
  [][(resp'.route = "history" /\ resp' # resp /\ resp'.limit >= 0) =>
       LET h == Stored(resp'.deviceId)
       IN /\ resp'.body = LastN(h, Min(resp'.limit, Len(h)))
          /\ Len(resp'.body) <= resp'.limit]_vars

\* C3: a message whose payload does not parse leaves the registry, the store,
\* the observers' streams and the adapter as they were; a well-formed message
\* handled afterwards for the same device is processed: the device is
\* registered, a telemetry sample is stored last, and its event is published.
C3_MalformedDiscarded ==
  [][nMsgs' = nMsgs + 1 =>
       LET d == lastMsg'.deviceId
           p == lastMsg'.payload
       IN /\ p = Garbage =>
               /\ iotDevices' = iotDevices
               /\ sensorData' = sensorData
               /\ conn' = conn
               /\ mqttState' = mqttState
               /\ ~lastMsg'.event.emitted
          /\ (WellFormed(p) /\ d \in discarded) =>
               /\ d \in DOMAIN iotDevices'
               /\ lastMsg'.event.emitted
               /\ lastMsg'.outcome = "ok"
               /\ lastMsg'.messageType = "telemetry" =>
                    /\ Len(sensorData'[d]) = Min(Len(Stored(d)) + 1, HistoryBound)
                    /\ sensorData'[d][Len(sensorData'[d])].value = p.value.fields
                    /\ lastMsg'.event.type = "telemetry"]_vars

C3_Witness ==
  /\ "dev1" \in discarded
  /\ lastMsg.handled
  /\ lastMsg.deviceId = "dev1"
  /\ lastMsg.messageType = "telemetry"
  /\ WellFormed(lastMsg.payload)
  /\ nMsgs = 2
  /\ DOMAIN iotDevices = {"dev1"}
  /\ Len(Stored("dev1")) = 1

\* C4: when a listener throws while an event is delivered, every other
\* listener registered for the category still receives the event.
C4_FailingListenerIsolated ==
  (lastMsg.handled /\ lastMsg.event.emitted) =>
     \A o \in Range(lastMsg.registered) \ lastMsg.failing : o \in lastMsg.receivers

\* C5: each category has exactly one listener per connected observer (none
\* once all have disconnected), and nothing is written to a connection after
\* its close was handled.
C5_ListenersMatchObservers ==
  /\ [](\A c \in Categories :
           /\ Len(listeners[c]) = Cardinality(OpenObservers)
           /\ Range(listeners[c]) = OpenObservers)
  /\ [][\A o \in Observers :
           (conn[o].state = "closed" /\ conn'[o].state = "closed") =>
              conn'[o].written = conn[o].written]_vars

C5_Witness ==
  /\ conn["o1"].state = "closed"
  /\ conn["o2"].state = "open"
  /\ conn["o1"].written # <<>>
  /\ lastMsg.handled
  /\ lastMsg.event.emitted
  /\ lastMsg.registered = <<"o2">>
  /\ lastMsg.receivers = {"o2"}
  /\ \A c \in Categories : listeners[c] = <<"o2">>

\* C6: a command sent while the client is not connected is answered with an
\* error and is not queued for later delivery.
C6_SendWhileDisconnectedRejected ==
  /\ (resp.route = "command" /\ resp.sentWhile # "connected") => resp.status # 202
  /\ offlineQueue = <<>>

ActiveCalls == {c \in CallSlots : calls[c].pc # "idle"}
EndedCalls == {c \in CallSlots : calls[c].pc \in {"returned", "threw"}}

\* C7: a submit or evaluate call whose invocation was reached, whether it
\* returned or raised, has closed the session it opened by the time the caller
\* sees the outcome; no session is closed more than once.
C7_SessionClosedOnBothPaths ==
  /\ \A c \in EndedCalls :
       calls[c].invoked =>
          /\ calls[c].session \in 1..Len(sessions)
          /\ ~sessions[calls[c].session].open
          /\ sessions[calls[c].session].closes = 1
          /\ sessions[calls[c].session].opener = c
  /\ \A i \in 1..Len(sessions) : sessions[i].closes <= 1

C7_Witness ==
  \E c \in CallSlots :
    /\ calls[c].pc = "threw"
    /\ calls[c].invoked
    /\ calls[c].error = "rejected"
    /\ ~sessions[calls[c].session].open
    /\ sessions[calls[c].session].closes = 1

\* C8: started with the application identity absent and nothing failing in the
\* environment, startup ends serving, with the application identity registered
\* with the authority and both identities Present.
C8_ApplicationIdentityProvisioned ==
  (wallet0["appUser"] = "Absent" /\ ~envFault /\ startPc \in {"serving", "exited"}) =>
     /\ startPc = "serving"
     /\ provisioned
     /\ wallet = [i \in Identities |-> "Present"]
     /\ \E i \in 1..Len(caLog) : caLog[i].op = "register" /\ caLog[i].id = "appUser"

\* C9: the HTTP listener, the ingestion adapter and ledger calls exist only
\* after provisioning succeeded; a failed step ends the process, which then
\* stays ended, and no request to the authority is made twice.
C9_ServesOnlyAfterProvisioning ==
  /\ [](/\ (listening \/ mqttState # "uninit" \/ ActiveCalls # {}) =>
             (provisioned /\ startPc = "serving" /\ wallet = [i \in Identities |-> "Present"])
        /\ envFault => startPc = "exited"
        /\ startPc = "exited" => (~listening /\ mqttState = "uninit" /\ ActiveCalls = {})
        /\ \A i, j \in 1..Len(caLog) :
              (caLog[i].op = caLog[j].op /\ caLog[i].id = caLog[j].id) => i = j)
  /\ [][startPc = "exited" => startPc' = "exited"]_vars

C9_Witness ==
  /\ startPc = "exited"
  /\ envFault
  /\ Len(caLog) = 1
  /\ ~caLog[1].accepted
  /\ ~listening
  /\ mqttState = "uninit"

\* C10: an evaluate of queryAsset started after a createAsset submit for the
\* same asset returned, and answered by the ledger, returns that asset; every
\* asset an evaluate returns is held by the ledger backend.
C10_ReadAfterWrite ==
  \A c \in EndedCalls :
    (calls[c].kind = "evaluate" /\ calls[c].functionName = "queryAsset" /\ calls[c].invoked) =>
       /\ (calls[c].arg \in calls[c].ackedAtStart /\ calls[c].error # "transport") =>
             (calls[c].pc = "returned" /\ calls[c].result = calls[c].arg)
       /\ calls[c].pc = "returned" => calls[c].result \in ledger

C10_Witness ==
  \E c \in CallSlots :
    /\ calls[c].pc = "returned"
    /\ calls[c].kind = "evaluate"
    /\ calls[c].functionName = "queryAsset"
    /\ calls[c].arg = "A1"
    /\ "A1" \in calls[c].ackedAtStart
    /\ calls[c].result = "A1"

\* C11: a failed submit or evaluate never answers as a success, and the answer
\* to a transport failure differs in its status or error label from the answer
\* the same route gives to a contract rejection.
C11_FailuresSurfacedAndClassified ==
  /\ \A c \in CallSlots :
       (httpOut[c].answered /\ httpOut[c].status = 200) => httpOut[c].success
  /\ \A c \in EndedCalls :
       (calls[c].pc = "threw") => routeResponse(calls[c]).status # 200
  /\ \A c1, c2 \in CallSlots :
       (/\ httpOut[c1].answered /\ httpOut[c1].status # 200
        /\ httpOut[c2].answered /\ httpOut[c2].status # 200
        /\ httpOut[c1].route = httpOut[c2].route
        /\ httpOut[c1].message = "transport"
        /\ httpOut[c2].message = "rejected") =>
          <<httpOut[c1].status, httpOut[c1].error>> # <<httpOut[c2].status, httpOut[c2].error>>

\* C12: for a device no inbound message has named, a history read answers the
\* empty sequence for every limit and a device read answers not-found; neither
\* answers an error and neither adds the device to the registry or the store.
C12_UnknownDeviceReads ==
  [][\A d \in Devices \ seen :
       /\ \A q \in QueryLimits : getSensorHistory(d, routeLimit(q)) = <<>>
       /\ ~getDeviceStatus(d).found
       /\ (resp' # resp /\ resp'.route \in {"history", "device"} /\ resp'.deviceId = d) =>
            /\ (resp'.route = "history") => (resp'.status = 200 /\ resp'.body = <<>>)
            /\ (resp'.route = "device") => (resp'.status = 404)
            /\ d \notin DOMAIN iotDevices'
            /\ d \notin DOMAIN sensorData'
            /\ iotDevices' = iotDevices
            /\ sensorData' = sensorData]_vars

\* Both reads were answered for a device never named, while another device
\* was registered with history.
C12_Witness ==
  /\ resp.route = "device"
  /\ resp.status = 404
  /\ resp.deviceId \notin seen
  /\ \E d \in seen : Len(Stored(d)) >= 2

\* C13: the broker connection has no terminal state: whenever it is closed, by
\* a transport error or a close, a new connection attempt follows; and neither
\* stops the process, which goes on serving.
C13_AdapterAlwaysReconnects ==
  /\ [](mqttState = "closed" => <>(mqttState = "connecting"))
  /\ [](startPc = "serving" /\ listening)

\* A message was handled on a connection made after two transport errors.
C13_Witness ==
  /\ lastMsg.handled
  /\ lastMsg.outcome = "ok"
  /\ lastMsg.errorsBefore >= 2

\* C14: the connectivity state of a registered device changes only when a
\* status message for it carries a status value, and then becomes that value;
\* every other message leaves it as it was; and the health summary counts as
\* online exactly the devices whose state is online.
C14_StatusChangesOnlyOnExplicitStatus ==
  [][(nMsgs' = nMsgs + 1) =>
       /\ \A d \in DOMAIN iotDevices :
            LET m == lastMsg'
                explicit == /\ m.deviceId = d
                            /\ m.messageType = "status"
                            /\ WellFormed(m.payload)
                            /\ "status" \in DOMAIN m.payload.value.fields
            IN /\ d \in DOMAIN iotDevices'
               /\ iotDevices'[d].status =
                    IF explicit THEN m.payload.value.fields.status ELSE iotDevices[d].status
       /\ getNetworkHealth.onlineDevices =
            Cardinality({d \in DOMAIN iotDevices : iotDevices[d].status = "online"})]_vars

\* C15: publishing an event writes it exactly once to every listener registered
\* for its category at that moment and to no one else; with no listener
\* registered it writes nothing and the message is handled without an error.
C15_PublishReachesEveryListenerOnce ==
  [][(nMsgs' = nMsgs + 1 /\ lastMsg'.event.emitted) =>
       LET e == lastMsg'.event
           registered == Range(listeners[e.type])
       IN /\ \A o \in Observers :
               conn'[o].written =
                 IF o \in registered \ lastMsg'.failing
                 THEN Append(conn[o].written, [event |-> e.type, data |-> e.data])
                 ELSE conn[o].written
          /\ (registered = {}) => (conn' = conn /\ lastMsg'.outcome = "ok")]_vars

\* C16: over an empty registry the health summary has totalDevices 0,
\* onlinePercentage 100 and avgBatteryLevel null; and avgBatteryLevel is null,
\* not 0, whenever no registered device has a recorded battery level.
C16_HealthOfEmptyRegistry ==
  [][LET Holds(h, devs) ==
           /\ (DOMAIN devs = {}) =>
                /\ h.totalDevices = 0
                /\ h.onlinePercentage = [num |-> 100, den |-> 1]
                /\ h.avgBatteryLevel = [null |-> TRUE]
           /\ (\A d \in DOMAIN devs : "batteryLevel" \notin DOMAIN devs[d]) =>
                h.avgBatteryLevel = [null |-> TRUE]
     IN /\ Holds(getNetworkHealth, iotDevices)
        /\ (resp' # resp /\ resp'.route = "health") =>
             (resp'.status = 200 /\ Holds(resp'.body, iotDevices))]_vars

\* The summary was answered while devices were registered, none of them with
\* a battery level.
C16_Witness ==
  /\ resp.route = "health"
  /\ resp.body.totalDevices = 2
  /\ resp.body.avgBatteryLevel = [null |-> TRUE]
  /\ DOMAIN iotDevices = Devices
  /\ \A d \in Devices : "batteryLevel" \notin DOMAIN iotDevices[d]

\* C17: however concurrent calls interleave, a call about to invoke the
\* contract holds an open session that it opened itself and shares with no
\* other call, and a session is closed only by the call that opened it, as
\* that call ends.
C17_CallsUseTheirOwnSession ==
  /\ [](/\ \A c \in CallSlots :
             (calls[c].pc = "invoke") =>
                /\ calls[c].gateway = calls[c].session
                /\ calls[c].session \in 1..Len(sessions)
                /\ sessions[calls[c].session].open
                /\ sessions[calls[c].session].opener = c
        /\ \A c1, c2 \in CallSlots :
             (/\ c1 # c2
              /\ calls[c1].pc \in {"getNetwork", "invoke"}
              /\ calls[c2].pc \in {"getNetwork", "invoke"}) =>
                calls[c1].session # calls[c2].session)
  /\ [][\A i \in 1..Len(sessions) :
          (sessions[i].open /\ ~sessions'[i].open) =>
             \E c \in CallSlots :
               /\ calls[c].pc = "invoke"
               /\ calls'[c].pc \in {"returned", "threw"}
               /\ calls[c].session = i
               /\ sessions[i].opener = c]_vars

\* Two calls are at their invocation at the same moment, each on its own open
\* session.
C17_Witness ==
  /\ \A c \in CallSlots : calls[c].pc = "invoke"
  /\ calls["r1"].session # calls["r2"].session
  /\ sessions[calls["r1"].session].open
  /\ sessions[calls["r2"].session].open

\* C18: the events buffered for one observer that reads slowly or not at all
\* stay under a fixed bound (here: any bound below the number of events
\* published), the oldest being dropped to make room.
C18_ObserverBacklogBounded ==
  \A o \in OpenObservers : Len(conn[o].buffered) < MaxBacklogMsgs

C20_NoSessionOutlivesItsCall ==
  \A i \in 1..Len(sessions) :
    sessions[i].open =>
       \E c \in CallSlots :
         /\ calls[c].pc \in {"getNetwork", "invoke"}
         /\ calls[c].session = i

\* C21: when a listener is delivered a telemetry event for a device, the
\* registry already holds a record of the device and the last sample of its
\* history is the sample the event carries; when it is delivered a status
\* event, the registry already holds the status that message set.
C21_StoresUpdatedBeforeDelivery ==
  (lastMsg.handled /\ lastMsg.event.emitted /\ lastMsg.receivers # {}) =>
     LET d == lastMsg.deviceId
         e == lastMsg.event
         m == lastMsg.payload.value.fields
     IN /\ (e.type = "telemetry") =>
             /\ e.data.deviceId = d
             /\ d \in DOMAIN e.atEmit.iotDevices
             /\ d \in DOMAIN e.atEmit.sensorData
             /\ e.atEmit.sensorData[d] # <<>>
             /\ e.atEmit.sensorData[d][Len(e.atEmit.sensorData[d])].value = e.data.value
             /\ e.data.value = m
        /\ (e.type = "status") =>
             /\ d \in DOMAIN e.atEmit.iotDevices
             /\ ("status" \in DOMAIN m) => e.atEmit.iotDevices[d].status = m.status
             /\ e.atEmit.iotDevices[d].status = iotDevices[d].status

\* An observer was delivered a telemetry event and another a status event.
C21_Witness ==
  /\ lastMsg.handled
  /\ lastMsg.event.emitted
  /\ lastMsg.event.type = "status"
  /\ lastMsg.receivers = Observers
  /\ \E o \in Observers :
       \E i \in 1..Len(conn[o].written) : conn[o].written[i].event = "telemetry"

\* C22: the frames written to an observer follow the order in which the
\* messages arrived, none twice: handling a message appends at most one frame,
\* the frame of that message's event, at the end of what was written (and
\* does append it when the observer is registered and no listener called
\* before it threw), and nothing else changes what was written to an open
\* connection.
C22_EventsInArrivalOrder ==
  [][\A o \in Observers :
       IF nMsgs' = nMsgs + 1
       THEN LET e == lastMsg'.event
                ls == lastMsg'.registered
                reached == /\ e.emitted
                           /\ \E i \in 1..Len(ls) :
                                /\ ls[i] = o
                                /\ \A j \in 1..i : ls[j] \notin lastMsg'.failing
            IN conn'[o].written =
                 IF reached
                 THEN Append(conn[o].written, [event |-> e.type, data |-> e.data])
                 ELSE conn[o].written
       ELSE \/ conn'[o].written = conn[o].written
            \/ conn[o].state # "open" /\ conn'[o].state = "open" /\ conn'[o].written = <<>>]_vars

\* An observer was written the events of two messages of one device, in the
\* order they arrived.
C22_Witness ==
  \E o \in OpenObservers :
    /\ Len(conn[o].written) = 2
    /\ conn[o].written[1].event = "telemetry"
    /\ conn[o].written[2].event = "status"
    /\ lastMsg.messageType = "status"
    /\ lastMsg.deviceId = "dev1"

\* C23: after a parsed message for a device that carries a battery level or a
\* signal strength in 0..100, the registry reports that value for the device,
\* 0 included; a level the message does not carry keeps the value it had.
C23_LevelsRecorded ==
  [][(nMsgs' = nMsgs + 1 /\ WellFormed(lastMsg'.payload)) =>
       LET d == lastMsg'.deviceId
           m == lastMsg'.payload.value.fields
           Level(devs, k) == IF d \in DOMAIN devs /\ k \in DOMAIN devs[d]
                             THEN devs[d][k] ELSE 0 - 1
       IN /\ d \in DOMAIN iotDevices'
          /\ Level(iotDevices', "batteryLevel") =
               IF "battery" \in DOMAIN m /\ m.battery \in 0..100
               THEN m.battery ELSE Level(iotDevices, "batteryLevel")
          /\ Level(iotDevices', "signalStrength") =
               IF "signal" \in DOMAIN m /\ m.signal \in 0..100
               THEN m.signal ELSE Level(iotDevices, "signalStrength")]_vars

\* C24: the connectivity state of every registered device is online or
\* offline, whatever status payloads arrived, so the health summary's online
\* and offline counts add up to the total and every device it counts as
\* offline is recorded as offline.
C24_ConnectivityIsOnlineOrOffline ==
  /\ \A d \in DOMAIN iotDevices : iotDevices[d].status \in {"online", "offline"}
  /\ getNetworkHealth.onlineDevices + getNetworkHealth.offlineDevices =
       getNetworkHealth.totalDevices
  /\ getNetworkHealth.offlineDevices =
       Cardinality({d \in DOMAIN iotDevices : iotDevices[d].status = "offline"})

\* C25: a status event or a scan event delivered to a listener carries as its
\* device or reader identity the id taken from the topic of its message,
\* whatever fields the payload has.
C25_EventIdentityFromTopic ==
  (lastMsg.handled /\ lastMsg.event.emitted /\ lastMsg.receivers # {}) =>
     /\ (lastMsg.event.type = "status") => lastMsg.event.data.deviceId = lastMsg.deviceId
     /\ (lastMsg.event.type = "nfc_scan") => lastMsg.event.data.readerId = lastMsg.deviceId
     /\ \A o \in lastMsg.receivers :
          LET frame == conn[o].written[Len(conn[o].written)]
          IN /\ (frame.event = "status") => frame.data.deviceId = lastMsg.deviceId
             /\ (frame.event = "nfc_scan") => frame.data.readerId = lastMsg.deviceId

\* C26: every send hands the broker client exactly one message, on the topic
\* iot/<deviceId>/command, whose command field is the command argument,
\* whatever fields the payload has.
C26_CommandEnvelope ==
  [][(nCmds' = nCmds + 1) =>
       LET before == brokerOut \o offlineQueue
           after == brokerOut' \o offlineQueue'
       IN /\ Len(after) = Len(before) + 1
          /\ SubSeq(after, 1, Len(before)) = before
          /\ after[Len(after)].topic = <<"iot", resp'.deviceId, "command">>
          /\ after[Len(after)].message.command = resp'.command]_vars

\* C27: the reads (get, list, history, health), opening and closing an
\* observer stream, and send leave the registry and the store as they were:
\* only the handling of a message changes either; and a history read
\* repeated at once returns the identical sequence.
C27_OnlyMessagesChangeTheStores ==
  [][/\ (nMsgs' = nMsgs) => (iotDevices' = iotDevices /\ sensorData' = sensorData)
     /\ (resp' # resp /\ resp'.route = "history") =>
          /\ resp'.body = getSensorHistory(resp'.deviceId, resp'.limit)
          /\ LET after == IF resp'.deviceId \in DOMAIN sensorData'
                          THEN sensorData'[resp'.deviceId] ELSE <<>>
             IN resp'.body = Slice(after, 0 - resp'.limit)]_vars

\* Reads, a command and a closed observer stream, with history in the store.
C27_Witness ==
  /\ resp.route = "history"
  /\ Len(resp.body) >= 1
  /\ nCmds >= 1
  /\ conn["o1"].state = "closed"
  /\ Len(Stored("dev1")) = 2

\* C28: when the handling of a message ends on the error path, the registry
\* and the store are as they were before the message and no event was
\* published for it.
C28_ErrorPathChangesNothing ==
  [][(nMsgs' = nMsgs + 1 /\ lastMsg'.outcome = "caught") =>
       /\ iotDevices' = iotDevices
       /\ sensorData' = sensorData
       /\ ~lastMsg'.event.emitted
       /\ conn' = conn]_vars

\* C29: every device with a sample in the store has a record in the registry,
\* and a device once in the registry stays in it.
C29_StoreWithinRegistry ==
  /\ [](\A d \in DOMAIN sensorData : sensorData[d] # <<>> => d \in DOMAIN iotDevices)
  /\ [][DOMAIN iotDevices \subseteq DOMAIN iotDevices']_vars

\* A device has samples and a record, went offline, and a message naming the
\* other device was discarded.
C29_Witness ==
  /\ Len(Stored("dev1")) >= 1
  /\ "dev1" \in DOMAIN iotDevices
  /\ iotDevices["dev1"].status = "offline"
  /\ lastMsg.handled
  /\ lastMsg.deviceId = "dev2"
  /\ lastMsg.outcome = "caught"

\* C30: for a package not yet returned, under any interleaving of concurrent
\* return requests, exactly one request processes the return and awards
\* tokens; every other request is rejected as already returned and awards
\* nothing.
Processing(r) == returns[r].pc \in {"savePackage", "findUser", "saveReturn", "saveTokens"}
Succeeded(r) == returns[r].pc = "done" /\ returns[r].response.status = 200
ReturnsOf(p) ==
  {r \in ReturnSlots : returns[r].pc \notin {"idle", "findOne"} /\ returns[r].packageId = p
                       /\ returns[r].response.error # "Validation failed"}
C30_ExactlyOneReturnProcessed ==
  \A p \in DOMAIN packages :
    /\ Cardinality({r \in ReturnsOf(p) : Processing(r) \/ Succeeded(r)}) <= 1
    /\ \A r \in ReturnsOf(p) :
         returns[r].pc = "done" =>
           \/ Succeeded(r)
           \/ returns[r].response.error = "Package already returned"
    /\ Len(packages[p].trackingHistory) <= 1
====
